---- MODULE Spec2Model ----
(***************************************************************************)
(* Model of the social media API (api/models.py, api/repositories.py,      *)
(* api/services.py, api/views.py).                                         *)
(*                                                                         *)
(* The store holds four tables: api_user, api_post, api_comment and the    *)
(* auto-created through table of User.followers.  Spec runs the service    *)
(* and repository operations one call at a time; SpecRace interleaves the  *)
(* database statements of concurrent follow requests.                      *)
(***************************************************************************)
EXTENDS Integers, Sequences, FiniteSets, TLC

VARIABLES
    users,            \* rows of api_user: [id, username, email, password]
    posts,            \* rows of api_post: [id, author_id, content, created_at]
    comments,         \* rows of api_comment: [id, author_id, post_id, content, created_at]
                      \* (created_at, set by auto_now_add, is the insertion tick of the table)
    followers,        \* through table of User.followers: row -> number of copies
    next_user_id,     \* AUTOINCREMENT counter of api_user
    next_post_id,     \* AUTOINCREMENT counter of api_post
    next_comment_id,  \* AUTOINCREMENT counter of api_comment
    last,             \* the operation of the last step and its outcome
    reqs,             \* in-flight HTTP requests (SpecRace)
    supports_ignore_conflicts  \* database feature read by ManyRelatedManager.add

vars == <<users, posts, comments, followers, next_user_id, next_post_id,
          next_comment_id, last, reqs, supports_ignore_conflicts>>

store == <<users, posts, comments, followers>>

(***************************************************************************)
(* Bounds of the model.                                                    *)
(***************************************************************************)
MaxUsers == 2
MaxPosts == 1
MaxComments == 1

UserIds == 1..MaxUsers
PostIds == 1..MaxPosts
CommentIds == 1..MaxComments

Usernames == {"alice", "bob"}
Emails == {"alice@x.com", "bob@x.com"}
Passwords == {"secret"}
Blank == ""

\* post and comment contents, as sequences of characters
Contents == { <<>>, <<" ">>, <<"h">> }

RECURSIVE lstrip(_)
lstrip(s) == IF s # <<>> /\ Head(s) = " " THEN lstrip(Tail(s)) ELSE s

RECURSIVE rstrip(_)
rstrip(s) == IF s # <<>> /\ s[Len(s)] = " " THEN rstrip(SubSeq(s, 1, Len(s) - 1)) ELSE s

strip(s) == rstrip(lstrip(s))

(***************************************************************************)
(* The through table of User.followers (models.py 31-37).  A row           *)
(* [from_user_id |-> x, to_user_id |-> y] puts y in x.followers and x in   *)
(* y.following (related_name='following').  The table is a bag, so that a  *)
(* duplicated row is a state the model can express.                        *)
(***************************************************************************)
Row(from_id, to_id) == [from_user_id |-> from_id, to_user_id |-> to_id]

rows == DOMAIN followers

copies(row) == IF row \in DOMAIN followers THEN followers[row] ELSE 0

RECURSIVE count(_)
count(S) == IF S = {} THEN 0
            ELSE LET x == CHOOSE y \in S : TRUE IN followers[x] + count(S \ {x})

\* user.followers.all()
followers_all(user_id) == { r.to_user_id : r \in { x \in rows : x.from_user_id = user_id } }

\* user.following.all()
following_all(user_id) == { r.from_user_id : r \in { x \in rows : x.to_user_id = user_id } }

\* the rows of the other side are counted
get_followers_count_reversed(user_id) == count({ x \in rows : x.to_user_id = user_id })

\* User.get_followers_count: self.followers.count()
get_followers_count(user_id) == count({ x \in rows : x.from_user_id = user_id })

\* User.get_following_count: self.following.count()
get_following_count(user_id) == count({ x \in rows : x.to_user_id = user_id })

\* User.is_following: user in self.following.all()
is_following(self_id, user_id) == user_id \in following_all(self_id)

\* INSERT of one through row
insert_row(row) ==
    [r \in rows \cup {row} |-> IF r = row THEN copies(row) + 1 ELSE followers[r]]

\* a symmetrical relation: the mirrored row is written as well
following_add_symmetrical(follower_id, user_id) ==
    [r \in rows \cup {Row(user_id, follower_id), Row(follower_id, user_id)} |->
        IF r \in rows THEN followers[r] ELSE 1]

\* follower.following.add(user): the reverse manager writes the row
\* (from_user = user, to_user = follower) unless it is already there
following_add(follower_id, user_id) ==
    IF Row(user_id, follower_id) \in rows THEN followers
    ELSE insert_row(Row(user_id, follower_id))

\* the row of the opposite direction is deleted
following_remove_reversed(follower_id, user_id) ==
    [r \in rows \ {Row(follower_id, user_id)} |-> followers[r]]

\* follower.following.remove(user): DELETE of the matching rows
following_remove(follower_id, user_id) ==
    [r \in rows \ {Row(user_id, follower_id)} |-> followers[r]]

(***************************************************************************)
(* Repositories (repositories.py).  A lookup returns the set of matching   *)
(* rows: the empty set stands for None.                                    *)
(***************************************************************************)
get_by_id(objects, id) == { r \in objects : r.id = id }

get_by_username(username) == { u \in users : u.username = username }

get_by_email(email) == { u \in users : u.email = email }

\* UserRepository.get_followers
get_followers(user_id) ==
    IF get_by_id(users, user_id) # {} THEN followers_all(user_id) ELSE {}

\* UserRepository.get_following
get_following(user_id) ==
    IF get_by_id(users, user_id) # {} THEN following_all(user_id) ELSE {}

\* oldest first
RECURSIVE order_by_created_at_asc(_)
order_by_created_at_asc(S) ==
    IF S = {} THEN <<>>
    ELSE LET oldest == CHOOSE c \in S : \A d \in S : c.created_at <= d.created_at
         IN  <<oldest>> \o order_by_created_at_asc(S \ {oldest})

RECURSIVE order_by_created_at_desc(_)
order_by_created_at_desc(S) ==
    IF S = {} THEN <<>>
    ELSE LET newest == CHOOSE c \in S : \A d \in S : d.created_at <= c.created_at
         IN  <<newest>> \o order_by_created_at_desc(S \ {newest})

\* CommentRepository.get_by_post, newest first
get_by_post(post_id) == order_by_created_at_desc({ c \in comments : c.post_id = post_id })

\* the keyword arguments reach the wrong columns
user_row_swapped(id, username, email, password) ==
    [id |-> id, username |-> email, email |-> username, password |-> password]

\* the row User.objects.create(username=, email=, password=) inserts
user_row(id, username, email, password) ==
    [id |-> id, username |-> username, email |-> email, password |-> password]

\* before: the through table before a follow_user call; deleted: the number of
\* rows instance.delete() reports as removed
Call(op, exc, msg) ==
    [op |-> op, exc |-> exc, msg |-> msg, before |-> <<>>, deleted |-> 0]

NoRequest == [pc |-> "idle", id |-> 0, follow_id |-> 0, edge_at_start |-> FALSE,
              missing |-> FALSE, lost |-> FALSE, status |-> 0]

Requests == {1, 2}

(***************************************************************************)
(* UserService (services.py 21-159)                                        *)
(***************************************************************************)
\* the email lookup is made before the username lookup
create_user_check_email_first(username, email, password) ==
    IF username = Blank \/ email = Blank \/ password = Blank
        THEN "Username, email, and password are required"
    ELSE IF get_by_email(email) # {} THEN "Email already exists"
    ELSE IF get_by_username(username) # {} THEN "Username already exists"
    ELSE "ok"

\* the checks of create_user, in the order the code makes them
create_user_check(username, email, password) ==
    IF username = Blank \/ email = Blank \/ password = Blank
        THEN "Username, email, and password are required"
    ELSE IF get_by_username(username) # {} THEN "Username already exists"
    ELSE IF get_by_email(email) # {} THEN "Email already exists"
    ELSE "ok"

create_user(username, email, password) ==
    LET msg == create_user_check(username, email, password) IN
    /\ msg = "ok" => next_user_id <= MaxUsers
    /\ IF msg = "ok"
          THEN /\ users' = users \cup {user_row(next_user_id, username, email, password)}
               /\ next_user_id' = next_user_id + 1
          ELSE UNCHANGED <<users, next_user_id>>
    /\ last' = Call("create_user", IF msg = "ok" THEN "None" ELSE "ValidationError", msg)
    /\ UNCHANGED <<posts, comments, followers, next_post_id, next_comment_id,
                   reqs, supports_ignore_conflicts>>

\* the duplicate check is left out
follow_user_check_no_duplicate(follower_id, user_to_follow_id) ==
    IF get_by_id(users, follower_id) = {} \/ get_by_id(users, user_to_follow_id) = {}
        THEN "One or both users not found"
    ELSE IF follower_id = user_to_follow_id THEN "Users cannot follow themselves"
    ELSE "ok"

\* the self-follow check is left out
follow_user_check_no_self(follower_id, user_to_follow_id) ==
    IF get_by_id(users, follower_id) = {} \/ get_by_id(users, user_to_follow_id) = {}
        THEN "One or both users not found"
    ELSE IF user_to_follow_id \in following_all(follower_id)
        THEN "Already following this user"
    ELSE "ok"

\* the checks of follow_user, in the order the code makes them
follow_user_check(follower_id, user_to_follow_id) ==
    IF get_by_id(users, follower_id) = {} \/ get_by_id(users, user_to_follow_id) = {}
        THEN "One or both users not found"
    ELSE IF follower_id = user_to_follow_id THEN "Users cannot follow themselves"
    ELSE IF user_to_follow_id \in following_all(follower_id)
        THEN "Already following this user"
    ELSE "ok"

follow_user(follower_id, user_to_follow_id) ==
    LET msg == follow_user_check(follower_id, user_to_follow_id) IN
    /\ followers' = IF msg = "ok" THEN following_add(follower_id, user_to_follow_id)
                    ELSE followers
    /\ last' = [Call("follow_user", IF msg = "ok" THEN "None" ELSE "ValidationError", msg)
                EXCEPT !.before = followers]
    /\ UNCHANGED <<users, posts, comments, next_user_id, next_post_id,
                   next_comment_id, reqs, supports_ignore_conflicts>>

\* the checks of unfollow_user, in the order the code makes them
unfollow_user_check(follower_id, user_to_unfollow_id) ==
    IF get_by_id(users, follower_id) = {} \/ get_by_id(users, user_to_unfollow_id) = {}
        THEN "One or both users not found"
    ELSE IF user_to_unfollow_id \notin following_all(follower_id)
        THEN "Not following this user"
    ELSE "ok"

unfollow_user(follower_id, user_to_unfollow_id) ==
    LET msg == unfollow_user_check(follower_id, user_to_unfollow_id) IN
    /\ followers' = IF msg = "ok" THEN following_remove(follower_id, user_to_unfollow_id)
                    ELSE followers
    /\ last' = Call("unfollow_user", IF msg = "ok" THEN "None" ELSE "ValidationError", msg)
    /\ UNCHANGED <<users, posts, comments, next_user_id, next_post_id,
                   next_comment_id, reqs, supports_ignore_conflicts>>

(***************************************************************************)
(* PostService.create_post (services.py 175-199) and                       *)
(* CommentService.create_comment (services.py 269-299)                     *)
(***************************************************************************)
create_post_check(author_id, content) ==
    IF get_by_id(users, author_id) = {} THEN "Author not found"
    ELSE IF content = <<>> \/ Len(strip(content)) = 0 THEN "Post content cannot be empty"
    ELSE "ok"

create_post(author_id, content) ==
    LET msg == create_post_check(author_id, content) IN
    /\ msg = "ok" => next_post_id <= MaxPosts
    /\ IF msg = "ok"
          THEN /\ posts' = posts \cup {[id |-> next_post_id, author_id |-> author_id,
                                        content |-> content, created_at |-> next_post_id]}
               /\ next_post_id' = next_post_id + 1
          ELSE UNCHANGED <<posts, next_post_id>>
    /\ last' = Call("create_post", IF msg = "ok" THEN "None" ELSE "ValidationError", msg)
    /\ UNCHANGED <<users, comments, followers, next_user_id, next_comment_id,
                   reqs, supports_ignore_conflicts>>

\* the content is checked before the post is looked up
create_comment_check_content_first(author_id, post_id, content) ==
    IF get_by_id(users, author_id) = {} THEN "Author not found"
    ELSE IF content = <<>> \/ Len(strip(content)) = 0 THEN "Comment content cannot be empty"
    ELSE IF get_by_id(posts, post_id) = {} THEN "Post not found"
    ELSE "ok"

\* the checks of create_comment, in the order the code makes them
create_comment_check(author_id, post_id, content) ==
    IF get_by_id(users, author_id) = {} THEN "Author not found"
    ELSE IF get_by_id(posts, post_id) = {} THEN "Post not found"
    ELSE IF content = <<>> \/ Len(strip(content)) = 0 THEN "Comment content cannot be empty"
    ELSE "ok"

create_comment(author_id, post_id, content) ==
    LET msg == create_comment_check(author_id, post_id, content) IN
    /\ msg = "ok" => next_comment_id <= MaxComments
    /\ IF msg = "ok"
          THEN /\ comments' = comments \cup
                      {[id |-> next_comment_id, author_id |-> author_id,
                        post_id |-> post_id, content |-> content,
                        created_at |-> next_comment_id]}
               /\ next_comment_id' = next_comment_id + 1
          ELSE UNCHANGED <<comments, next_comment_id>>
    /\ last' = Call("create_comment", IF msg = "ok" THEN "None" ELSE "ValidationError", msg)
    /\ UNCHANGED <<users, posts, followers, next_user_id, next_post_id,
                   reqs, supports_ignore_conflicts>>

(***************************************************************************)
(* DjangoRepository.delete (repositories.py 161-176): instance.delete()    *)
(* collects the rows that reference the instance through on_delete=CASCADE *)
(* foreign keys (models.py 108-114, 175-188) and through rows.             *)
(***************************************************************************)
\* the posts that go with a user
cascade_posts(user_id) == { p \in posts : p.author_id = user_id }

\* only the comments the user wrote go with the user
cascade_comments_own_only(user_id) == { c \in comments : c.author_id = user_id }

\* the comments that go with a user: the user's own and those on the user's posts
cascade_comments(user_id) ==
    { c \in comments : \/ c.author_id = user_id
                       \/ c.post_id \in { p.id : p \in cascade_posts(user_id) } }

\* the through rows that go with a user
cascade_rows(user_id) ==
    { r \in rows : r.from_user_id = user_id \/ r.to_user_id = user_id }

\* the comments of the post's author go instead of the comments on the post
post_comments_by_author(post_id) ==
    { c \in comments : c.author_id \in { p.author_id : p \in get_by_id(posts, post_id) } }

\* the comments that go with a post
post_comments(post_id) == { c \in comments : c.post_id = post_id }

delete_user(id) ==
    /\ IF get_by_id(users, id) = {}
          THEN /\ UNCHANGED store
               /\ last' = Call("delete_user", "None", "False")
          ELSE /\ users' = users \ get_by_id(users, id)
               /\ posts' = posts \ cascade_posts(id)
               /\ comments' = comments \ cascade_comments(id)
               /\ followers' = [r \in rows \ cascade_rows(id) |-> followers[r]]
               /\ last' = [Call("delete_user", "None", "True")
                           EXCEPT !.deleted = 1 + Cardinality(cascade_posts(id))
                                              + Cardinality(cascade_comments(id))
                                              + count(cascade_rows(id))]
    /\ UNCHANGED <<next_user_id, next_post_id, next_comment_id, reqs,
                   supports_ignore_conflicts>>

delete_post(id) ==
    /\ IF get_by_id(posts, id) = {}
          THEN /\ UNCHANGED store
               /\ last' = Call("delete_post", "None", "False")
          ELSE /\ posts' = posts \ get_by_id(posts, id)
               /\ comments' = comments \ post_comments(id)
               /\ last' = [Call("delete_post", "None", "True")
                           EXCEPT !.deleted = 1 + Cardinality(post_comments(id))]
               /\ UNCHANGED <<users, followers>>
    /\ UNCHANGED <<next_user_id, next_post_id, next_comment_id, reqs,
                   supports_ignore_conflicts>>

delete_comment(id) ==
    /\ IF get_by_id(comments, id) = {}
          THEN /\ UNCHANGED store
               /\ last' = Call("delete_comment", "None", "False")
          ELSE /\ comments' = comments \ get_by_id(comments, id)
               /\ last' = [Call("delete_comment", "None", "True")
                           EXCEPT !.deleted = 1]
               /\ UNCHANGED <<users, posts, followers>>
    /\ UNCHANGED <<next_user_id, next_post_id, next_comment_id, reqs,
                   supports_ignore_conflicts>>

(***************************************************************************)
(* One call at a time                                                      *)
(***************************************************************************)
Init ==
    /\ users = {}
    /\ posts = {}
    /\ comments = {}
    /\ followers = <<>>
    /\ next_user_id = 1
    /\ next_post_id = 1
    /\ next_comment_id = 1
    /\ last = Call("init", "None", "ok")
    /\ reqs = [r \in Requests |-> NoRequest]
    /\ supports_ignore_conflicts = TRUE

\* the user_data of create_user: complete, or with one field blank or absent
UserData ==
    (Usernames \X Emails \X Passwords)
        \cup { <<Blank, "alice@x.com", "secret">>, <<"alice", Blank, "secret">>,
               <<"bob", "bob@x.com", Blank>> }

CreateUser == \E user_data \in UserData : create_user(user_data[1], user_data[2], user_data[3])

FollowUser == \E a \in UserIds, b \in UserIds : follow_user(a, b)

UnfollowUser == \E a \in UserIds, b \in UserIds : unfollow_user(a, b)

CreatePost == \E a \in UserIds, content \in Contents : create_post(a, content)

CreateComment ==
    \E a \in UserIds, p \in PostIds, content \in Contents : create_comment(a, p, content)

DeleteUser == \E id \in UserIds : delete_user(id)

DeletePost == \E id \in PostIds : delete_post(id)

DeleteComment == \E id \in CommentIds : delete_comment(id)

Next ==
    \/ CreateUser
    \/ FollowUser
    \/ UnfollowUser
    \/ CreatePost
    \/ CreateComment
    \/ DeleteUser
    \/ DeletePost
    \/ DeleteComment

Spec == Init /\ [][Next]_vars

(***************************************************************************)
(* Properties of the calls                                                 *)
(***************************************************************************)
exists(id) == get_by_id(users, id) # {}

\* C1: follow_user(A, B) for existing users A # B with no edge (A, B) succeeds
\* and changes the state by exactly that edge: afterwards A is following B,
\* B has one follower more and A follows one user more, the reverse edge is as
\* it was, and every other row, user, post and comment is unchanged.
C1_FollowAddsExactlyTheEdge ==
    [][\A a \in UserIds, b \in UserIds :
        (/\ last'.op = "follow_user"
         /\ follow_user(a, b)
         /\ exists(a) /\ exists(b) /\ a # b /\ ~is_following(a, b))
        => /\ last'.exc = "None"
           /\ is_following(a, b)'
           /\ get_followers_count(b)' = get_followers_count(b) + 1
           /\ get_following_count(a)' = get_following_count(a) + 1
           /\ is_following(b, a)' = is_following(b, a)
           /\ copies(Row(b, a))' = 1
           /\ \A r \in (rows \cup rows') \ {Row(b, a)} : copies(r)' = copies(r)
           /\ users' = users /\ posts' = posts /\ comments' = comments]_vars

C1_Witness ==
    /\ last.op = "follow_user" /\ last.exc = "None"
    /\ \E a \in UserIds, b \in UserIds :
          /\ a # b /\ is_following(a, b) /\ is_following(b, a)
          /\ Row(b, a) \notin DOMAIN last.before
          /\ Row(a, b) \in DOMAIN last.before

\* C2: a follow_user call that is rejected leaves users, posts, comments and
\* follow rows unchanged; follow_user(A, A) is rejected with ValidationError
\* for every A, and so is follow_user(A, B) when A already follows B.
C2_RejectedFollowChangesNothing ==
    [][\A a \in UserIds, b \in UserIds :
        (last'.op = "follow_user" /\ follow_user(a, b))
        => /\ (a = b \/ is_following(a, b)) => last'.exc = "ValidationError"
           /\ last'.exc # "None" => store' = store]_vars

C2_Witness ==
    /\ last.op = "follow_user" /\ last.exc = "ValidationError"
    /\ last.msg = "Already following this user"
    /\ last.before = followers

\* C3: the follow relation never holds a self-pair and never holds a pair twice.
C3_NoSelfPairNoDuplicate ==
    \A r \in rows : r.from_user_id # r.to_user_id /\ followers[r] = 1

C3_Witness ==
    /\ last.op = "unfollow_user" /\ last.exc = "None"
    /\ rows # {}

\* C6: create_user is rejected with ValidationError and stores nothing when a
\* field is blank, when the username is taken or when the email is taken; the
\* blank-field check comes first, then the username, then the email.
C6_CreateUserRejections ==
    [][\A d \in UserData :
        (last'.op = "create_user" /\ create_user(d[1], d[2], d[3]))
        => LET missing == d[1] = Blank \/ d[2] = Blank \/ d[3] = Blank
               username_taken == \E u \in users : u.username = d[1]
               email_taken == \E u \in users : u.email = d[2]
           IN  /\ (missing \/ username_taken \/ email_taken)
                    => last'.exc = "ValidationError" /\ store' = store
               /\ missing => last'.msg = "Username, email, and password are required"
               /\ (~missing /\ username_taken) => last'.msg = "Username already exists"
               /\ (~missing /\ ~username_taken /\ email_taken)
                    => last'.msg = "Email already exists"]_vars

\* every username and every email is taken, and the username was reported
C6_Witness ==
    /\ last.op = "create_user" /\ last.msg = "Username already exists"
    /\ \A n \in Usernames : get_by_username(n) # {}
    /\ \A e \in Emails : get_by_email(e) # {}

\* C7: create_user with a username and an email that are both unused, and a
\* non-blank password, succeeds and adds exactly one user, which
\* get_by_username and get_by_email then return.
C7_CreateUserThenLookup ==
    [][\A d \in UserData :
        (/\ last'.op = "create_user"
         /\ create_user(d[1], d[2], d[3])
         /\ d[1] # Blank /\ d[2] # Blank /\ d[3] # Blank
         /\ get_by_username(d[1]) = {} /\ get_by_email(d[2]) = {})
        => /\ last'.exc = "None"
           /\ users \subseteq users'
           /\ Cardinality(users') = Cardinality(users) + 1
           /\ get_by_username(d[1])' = users' \ users
           /\ get_by_email(d[2])' = users' \ users
           /\ \A u \in users' \ users : u.id \notin { x.id : x \in users }
           /\ posts' = posts /\ comments' = comments /\ followers' = followers]_vars

C7_Witness ==
    /\ last.op = "create_user" /\ last.exc = "None"
    /\ Cardinality(users) = 2
    /\ \E u \in users : u.username = "bob" /\ u.email = "alice@x.com"

\* C8: unfollow_user(A, B) without the edge (A, B) is rejected with
\* ValidationError and changes nothing; with the edge it succeeds and removes
\* exactly that edge, so that an unfollow right after the follow that made the
\* edge gives back the follow relation from before the follow.
C8_UnfollowRemovesExactlyTheEdge ==
    [][\A a \in UserIds, b \in UserIds :
        (last'.op = "unfollow_user" /\ unfollow_user(a, b))
        => /\ ~is_following(a, b) => (last'.exc = "ValidationError" /\ store' = store)
           /\ is_following(a, b)
                => /\ last'.exc = "None"
                   /\ ~is_following(a, b)'
                   /\ rows' = rows \ {Row(b, a)}
                   /\ \A r \in rows' : copies(r)' = copies(r)
                   /\ users' = users /\ posts' = posts /\ comments' = comments
           /\ (/\ last.op = "follow_user" /\ last.exc = "None"
               /\ is_following(a, b) /\ Row(b, a) \notin DOMAIN last.before)
                => followers' = last.before]_vars

C8_Witness ==
    /\ last.op = "unfollow_user" /\ last.exc = "None"
    /\ \E a \in UserIds, b \in UserIds : a # b /\ is_following(a, b) /\ ~is_following(b, a)

\* C9: deleting user U removes, in that one step, U, the posts and comments U
\* wrote, every comment on a post of U, and every follow row with U on either
\* side, so that no remaining user has U as follower or as followed; every
\* other row stays as it was.
C9_DeleteUserCascades ==
    [][\A u \in UserIds :
        (last'.op = "delete_user" /\ delete_user(u) /\ exists(u))
        => /\ last'.msg = "True"
           /\ users' = { x \in users : x.id # u }
           /\ posts' = { p \in posts : p.author_id # u }
           /\ comments' = { c \in comments :
                              /\ c.author_id # u
                              /\ \A p \in posts : p.id = c.post_id => p.author_id # u }
           /\ rows' = { r \in rows : r.from_user_id # u /\ r.to_user_id # u }
           /\ \A r \in rows' : copies(r)' = copies(r)
           /\ \A v \in users' : u \notin get_followers(v.id)' /\ u \notin get_following(v.id)'
       ]_vars

\* the user went with a post, a comment and a follow row
C9_Witness ==
    /\ last.op = "delete_user" /\ last.msg = "True" /\ last.deleted >= 4
    /\ users # {} /\ posts = {} /\ comments = {} /\ rows = {}

C11_CreateCommentCheckOrder ==
    [][\A a \in UserIds, p \in PostIds, content \in Contents :
        (last'.op = "create_comment" /\ create_comment(a, p, content))
        => /\ ~exists(a)
                => last'.exc = "ValidationError" /\ last'.msg = "Author not found"
           /\ (exists(a) /\ get_by_id(posts, p) = {})
                => last'.exc = "ValidationError" /\ last'.msg = "Post not found"
           /\ (exists(a) /\ get_by_id(posts, p) # {} /\ strip(content) = <<>>)
                => last'.exc = "ValidationError"
                   /\ last'.msg = "Comment content cannot be empty"
           /\ last'.exc # "None"
                => store' = store /\ next_comment_id' = next_comment_id]_vars

\* the post had existed and was deleted; the comment on it was refused
C11_Witness ==
    /\ last.op = "create_comment" /\ last.msg = "Post not found"
    /\ users # {} /\ posts = {} /\ next_post_id > 1 /\ comments = {}

\* C13: follow_user and unfollow_user with a follower id or a target id that
\* does not resolve to a user fail with a NotFound outcome, which is not the
\* ValidationError of the self-follow and edge checks; the existence check
\* comes first (also when both ids are the same missing id) and the state is
\* unchanged.
C13_MissingUserIsNotFound ==
    [][\A a \in UserIds, b \in UserIds :
        /\ (last'.op = "follow_user" /\ follow_user(a, b) /\ (~exists(a) \/ ~exists(b)))
            => last'.exc = "NotFound" /\ store' = store
        /\ (last'.op = "unfollow_user" /\ unfollow_user(a, b) /\ (~exists(a) \/ ~exists(b)))
            => last'.exc = "NotFound" /\ store' = store]_vars

(***************************************************************************)
(* Content at the length limits.  The limits are those of                  *)
(* PostSerializer.validate_content and CommentSerializer.validate_content  *)
(* (serializers.py); create_post and create_comment are the service calls  *)
(* of above, here given content of exactly the limit and one beyond it.    *)
(***************************************************************************)
MaxPostContent == 5000
MaxCommentContent == 1000

text(n) == [i \in 1..n |-> "h"]

LongContents ==
    { text(MaxCommentContent), text(MaxCommentContent + 1),
      text(MaxPostContent), text(MaxPostContent + 1), <<" ">> }

\* two registered users, no posts and no comments yet
InitLength ==
    /\ users = { user_row(1, "alice", "alice@x.com", "secret"),
                 user_row(2, "bob", "bob@x.com", "secret") }
    /\ posts = {}
    /\ comments = {}
    /\ followers = <<>>
    /\ next_user_id = 3
    /\ next_post_id = 1
    /\ next_comment_id = 1
    /\ last = Call("init", "None", "ok")
    /\ reqs = [r \in Requests |-> NoRequest]
    /\ supports_ignore_conflicts = TRUE

CreateLongPost == \E a \in UserIds, content \in LongContents : create_post(a, content)

CreateLongComment ==
    \E a \in UserIds, p \in PostIds, content \in LongContents : create_comment(a, p, content)

NextLength ==
    \/ CreateLongPost
    \/ CreateLongComment
    \/ DeletePost
    \/ DeleteComment

SpecLength == InitLength /\ [][NextLength]_vars

\* C12: create_post with content longer than 5000 characters and
\* create_comment with content longer than 1000 characters fail with
\* ValidationError and persist nothing.
C12_OverLengthContentRejected ==
    [][\A a \in UserIds, content \in LongContents :
        /\ (last'.op = "create_post" /\ create_post(a, content)
                /\ Len(content) > MaxPostContent)
            => last'.exc = "ValidationError" /\ store' = store
        /\ \A p \in PostIds :
            (last'.op = "create_comment" /\ create_comment(a, p, content)
                /\ Len(content) > MaxCommentContent)
            => last'.exc = "ValidationError" /\ store' = store]_vars

(***************************************************************************)
(* Reads.  The read operations are functions of the store, so SpecRead     *)
(* starts from any store of two registered users with a few posts,         *)
(* comments and follow rows and applies the reads to it.                   *)
(***************************************************************************)
ReadUserIds == 1..(MaxUsers + 1)
ReadPostIds == 1..(MaxPosts + 1)
ReadCommentIds == 1..(MaxComments + 2)

\* values of comments_limit; 3 is the default
Limits == 0..(MaxComments + 3)

Min(a, b) == IF a <= b THEN a ELSE b

\* queryset[:limit]
slice(queryset, limit) == SubSeq(queryset, 1, Min(limit, Len(queryset)))

\* the outcome of a read with its arguments: msg is "None" when the call
\* returns None
ReadCall(op, args, msg, result) ==
    [op |-> op, exc |-> "None", msg |-> msg, before |-> <<>>, deleted |-> 0,
     args |-> args, result |-> result]

\* PostService.get_post_with_comments (services.py 230-252)
get_post_with_comments(post_id, comments_limit) ==
    LET post == get_by_id(posts, post_id)
        of_post == { c \in comments : c.post_id = post_id }
    IN  /\ last' = IF post = {}
                      THEN ReadCall("get_post_with_comments", <<post_id, comments_limit>>, "None", <<>>)
                      ELSE ReadCall("get_post_with_comments", <<post_id, comments_limit>>, "ok",
                               [post |-> CHOOSE x \in post : TRUE,
                                recent_comments |->
                                    slice(order_by_created_at_desc(of_post), comments_limit),
                                total_comments |-> Cardinality(of_post)])
        /\ UNCHANGED <<store, next_user_id, next_post_id, next_comment_id, reqs,
                       supports_ignore_conflicts>>

\* UserService.get_user_with_stats (services.py 68-94)
get_user_with_stats(user_id) ==
    LET user == get_by_id(users, user_id) IN
    /\ last' = IF user = {}
                  THEN ReadCall("get_user_with_stats", <<user_id>>, "None", <<>>)
                  ELSE ReadCall("get_user_with_stats", <<user_id>>, "ok",
                           [user |-> CHOOSE x \in user : TRUE,
                            total_posts |->
                                Cardinality({ p \in posts : p.author_id = user_id }),
                            total_comments |->
                                Cardinality({ c \in comments : c.author_id = user_id }),
                            followers_count |-> get_followers_count(user_id),
                            following_count |-> get_following_count(user_id)])
    /\ UNCHANGED <<store, next_user_id, next_post_id, next_comment_id, reqs,
                   supports_ignore_conflicts>>

(***************************************************************************)
(* The user list and user detail endpoints (views.py 28-84) serve          *)
(* User.objects.annotate(total_posts=Count('posts'),                       *)
(* total_comments=Count('comments')): one query that LEFT JOINs api_post   *)
(* and api_comment to api_user, groups by the user and counts the non-NULL *)
(* post ids and the non-NULL comment ids of the joined rows.               *)
(***************************************************************************)
NULL == 0

\* the joined rows of one user: <<post id, comment id>>
joined_rows(user_id) ==
    LET post_ids == { p.id : p \in { x \in posts : x.author_id = user_id } }
        comment_ids == { c.id : c \in { x \in comments : x.author_id = user_id } }
    IN  (IF post_ids = {} THEN {NULL} ELSE post_ids)
            \X (IF comment_ids = {} THEN {NULL} ELSE comment_ids)

\* Count('posts') is column 1, Count('comments') is column 2
Count(user_id, column) ==
    Cardinality({ r \in joined_rows(user_id) : r[column] # NULL })

\* UserSerializer (serializers.py 68-113) of an annotated user
UserSerializer(user) ==
    [id |-> user.id, username |-> user.username, email |-> user.email,
     total_posts |-> Count(user.id, 1),
     total_comments |-> Count(user.id, 2),
     followers_count |-> get_followers_count(user.id),
     following_count |-> get_following_count(user.id)]

\* the order of usernames (ordering = ['username'])
Collation == <<"alice", "bob">>

position(username) == CHOOSE i \in 1..Len(Collation) : Collation[i] = username

RECURSIVE order_by_username(_)
order_by_username(S) ==
    IF S = {} THEN <<>>
    ELSE LET first == CHOOSE u \in S :
                          \A v \in S : position(u.username) <= position(v.username)
         IN  <<first>> \o order_by_username(S \ {first})

\* GET users/: UserListCreateView
user_list ==
    /\ last' = ReadCall("user_list", <<>>, "200",
                    [i \in 1..Cardinality(users) |->
                        UserSerializer(order_by_username(users)[i])])
    /\ UNCHANGED <<store, next_user_id, next_post_id, next_comment_id, reqs,
                   supports_ignore_conflicts>>

\* GET users/<pk>/: UserDetailView, UserDetailSerializer (serializers.py 159-172)
user_detail(pk) ==
    LET user == get_by_id(users, pk) IN
    /\ last' = IF user = {}
                  THEN ReadCall("user_detail", <<pk>>, "404", <<>>)
                  ELSE ReadCall("user_detail", <<pk>>, "200",
                           [data |-> UserSerializer(CHOOSE x \in user : TRUE),
                            followers |-> followers_all(pk),
                            following |-> following_all(pk)])
    /\ UNCHANGED <<store, next_user_id, next_post_id, next_comment_id, reqs,
                   supports_ignore_conflicts>>

\* the keyword arguments the route users/<int:pk>/stats/ captures (urls.py 27)
user_stats_kwargs == {"pk"}

\* the keyword parameters of UserStatsView.get besides request (views.py 325)
UserStatsView_get_parameters == {"user_id"}

\* GET users/<pk>/stats/: the dispatcher calls get(request, **kwargs) with the
\* captured arguments; a keyword the method does not take is a TypeError
\* raised before the body runs, which no handler translates: 500.  The body
\* (views.py 336-357) answers 404 for a missing user and the statistics of
\* get_user_with_stats otherwise.
stats_get(pk) ==
    LET user == get_by_id(users, pk) IN
    /\ last' = IF user_stats_kwargs # UserStatsView_get_parameters
                  THEN ReadCall("stats_get", <<pk>>, "500", <<>>)
                  ELSE IF user = {}
                  THEN ReadCall("stats_get", <<pk>>, "404", <<>>)
                  ELSE ReadCall("stats_get", <<pk>>, "200",
                           [user_id |-> pk,
                            username |-> (CHOOSE x \in user : TRUE).username,
                            total_posts |->
                                Cardinality({ p \in posts : p.author_id = pk }),
                            total_comments |->
                                Cardinality({ c \in comments : c.author_id = pk }),
                            followers_count |-> get_followers_count(pk),
                            following_count |-> get_following_count(pk)])
    /\ UNCHANGED <<store, next_user_id, next_post_id, next_comment_id, reqs,
                   supports_ignore_conflicts>>

\* two registered users; posts and comments by alice, any comment on any of
\* the posts.  Ids and creation ticks are in insertion order, with the gaps
\* deletes leave.
InitRead ==
    /\ users = { user_row(1, "alice", "alice@x.com", "secret"),
                 user_row(2, "bob", "bob@x.com", "secret") }
    /\ \E S \in SUBSET ReadPostIds :
          posts = { [id |-> i, author_id |-> 1, content |-> <<"h">>, created_at |-> i] :
                        i \in S }
    /\ \E post_id \in [ReadCommentIds -> {NULL} \cup ReadPostIds] :
          /\ \A i \in ReadCommentIds :
                post_id[i] # NULL => get_by_id(posts, post_id[i]) # {}
          /\ comments = { [id |-> i, author_id |-> 1, post_id |-> post_id[i],
                           content |-> <<"h">>, created_at |-> i] :
                              i \in { j \in ReadCommentIds : post_id[j] # NULL } }
    /\ followers = <<>>
    /\ next_user_id = 3
    /\ next_post_id = MaxPosts + 2
    /\ next_comment_id = MaxComments + 3
    /\ last = Call("init", "None", "ok")
    /\ reqs = [r \in Requests |-> NoRequest]
    /\ supports_ignore_conflicts = TRUE

GetPostWithComments ==
    \E post_id \in 1..(MaxPosts + 2), comments_limit \in Limits :
        get_post_with_comments(post_id, comments_limit)

NextRead ==
    \/ GetPostWithComments

SpecRead == InitRead /\ [][NextRead]_vars

\* two registered users; posts by either; comments by either, on the oldest
\* post; any follow relation between the two
InitStats ==
    /\ users = { user_row(1, "alice", "alice@x.com", "secret"),
                 user_row(2, "bob", "bob@x.com", "secret") }
    /\ \E author \in [ReadPostIds -> {NULL, 1, 2}] :
          posts = { [id |-> i, author_id |-> author[i], content |-> <<"h">>,
                     created_at |-> i] : i \in { j \in ReadPostIds : author[j] # NULL } }
    /\ \E author \in [1..(MaxComments + 1) -> {NULL, 1, 2}] :
          /\ posts = {} => \A i \in 1..(MaxComments + 1) : author[i] = NULL
          /\ comments = { [id |-> i, author_id |-> author[i],
                           post_id |-> CHOOSE p \in ReadPostIds :
                                          /\ get_by_id(posts, p) # {}
                                          /\ \A x \in posts : p <= x.id,
                           content |-> <<"h">>, created_at |-> i] :
                              i \in { j \in 1..(MaxComments + 1) : author[j] # NULL } }
    /\ \E S \in SUBSET {Row(1, 2), Row(2, 1)} : followers = [x \in S |-> 1]
    /\ next_user_id = 3
    /\ next_post_id = MaxPosts + 2
    /\ next_comment_id = MaxComments + 2
    /\ last = Call("init", "None", "ok")
    /\ reqs = [r \in Requests |-> NoRequest]
    /\ supports_ignore_conflicts = TRUE

GetUserWithStats == \E user_id \in ReadUserIds : get_user_with_stats(user_id)

UserList == user_list

UserDetail == \E pk \in ReadUserIds : user_detail(pk)

StatsGet == \E pk \in ReadUserIds : stats_get(pk)

NextStats ==
    \/ GetUserWithStats
    \/ UserList
    \/ UserDetail
    \/ StatsGet

SpecStats == InitStats /\ [][NextStats]_vars

\* C14: get_post_with_comments(P, n) returns None when post P does not exist;
\* otherwise it returns post P, the min(n, total) most recently created
\* comments of P, newest first and none of another post, and total_comments
\* equal to the number of all comments on P whatever n is.
C14_PostWithRecentComments ==
    [][last'.op = "get_post_with_comments"
        => LET p == last'.args[1]
               n == last'.args[2]
               of_p == { c \in comments : c.post_id = p }
           IN  IF \A x \in posts : x.id # p
                  THEN last'.msg = "None"
                  ELSE LET r == last'.result
                           recent == r.recent_comments
                       IN  /\ last'.msg = "ok"
                           /\ r.post \in posts /\ r.post.id = p
                           /\ r.total_comments = Cardinality(of_p)
                           /\ Len(recent) = Min(n, Cardinality(of_p))
                           /\ \A i \in 1..Len(recent) : recent[i] \in of_p
                           /\ \A i \in 1..Len(recent), j \in 1..Len(recent) :
                                 i < j => recent[i].created_at > recent[j].created_at
                           /\ \A c \in of_p :
                                 (\A i \in 1..Len(recent) : recent[i] # c)
                                    => \A i \in 1..Len(recent) :
                                          c.created_at < recent[i].created_at]_vars

\* the newer of the two comments of the post was returned, and a newer comment
\* still is on the other post
C14_Witness ==
    /\ last.op = "get_post_with_comments" /\ last.msg = "ok"
    /\ last.args[2] = 1
    /\ Len(last.result.recent_comments) = 1
    /\ last.result.total_comments = 2
    /\ \E c \in comments :
          /\ c.post_id # last.result.post.id
          /\ c.created_at > last.result.recent_comments[1].created_at

\* the posts and the comments a user wrote, and the edges at a user
posts_of(u) == { i \in ReadPostIds : \E p \in posts : p.id = i /\ p.author_id = u }

comments_of(u) ==
    { i \in 1..(MaxComments + 1) : \E c \in comments : c.id = i /\ c.author_id = u }

\* C15: get_user_with_stats(U) returns None when user U does not exist;
\* otherwise total_posts is the number of posts U wrote, total_comments the
\* number of comments U wrote, followers_count the number of users X that
\* follow U and following_count the number of users X that U follows, all of
\* the state the call is made in; the call changes no state.
C15_UserStats ==
    [][last'.op = "get_user_with_stats"
        => LET u == last'.args[1] IN
           /\ store' = store
           /\ IF ~exists(u)
                 THEN last'.msg = "None"
                 ELSE LET r == last'.result IN
                      /\ last'.msg = "ok"
                      /\ r.user \in users /\ r.user.id = u
                      /\ r.total_posts = Cardinality(posts_of(u))
                      /\ r.total_comments = Cardinality(comments_of(u))
                      /\ r.followers_count =
                            Cardinality({ x \in ReadUserIds : is_following(x, u) })
                      /\ r.following_count =
                            Cardinality({ x \in ReadUserIds : is_following(u, x) })]_vars

\* a user with two posts, a comment, a follower and nobody followed
C15_Witness ==
    /\ last.op = "get_user_with_stats" /\ last.msg = "ok"
    /\ last.result.total_posts = 2 /\ last.result.total_comments = 1
    /\ last.result.followers_count = 1 /\ last.result.following_count = 0

\* C16: in the user representation of the user list and of the user detail,
\* total_posts is the number of posts the user wrote and total_comments the
\* number of comments the user wrote, whatever the two numbers are.
C16_ListTotalsAreCounts ==
    [][/\ last'.op = "user_list"
            => \A i \in 1..Len(last'.result) :
                  /\ last'.result[i].total_posts =
                        Cardinality(posts_of(last'.result[i].id))
                  /\ last'.result[i].total_comments =
                        Cardinality(comments_of(last'.result[i].id))
       /\ (last'.op = "user_detail" /\ last'.msg = "200")
            => /\ last'.result.data.total_posts = Cardinality(posts_of(last'.args[1]))
               /\ last'.result.data.total_comments =
                     Cardinality(comments_of(last'.args[1]))]_vars

\* C23: the credential stored for a user is never the plaintext handed to
\* create_user, and the representation of a user does not depend on the
\* credential: the user with another credential is represented the same.
C23_CredentialOpaque ==
    /\ \A u \in users : u.password \notin Passwords
    /\ \A u \in users :
          UserSerializer(u) = UserSerializer([u EXCEPT !.password = Blank])

\* C22: GET users/<pk>/stats/ is answered 200 with the user's id, username,
\* total_posts, total_comments, followers_count and following_count when a
\* user with that id exists, and 404 when none does.
C22_StatsGet ==
    [][last'.op = "stats_get"
        => IF get_by_id(users, last'.args[1]) = {}
              THEN last'.msg = "404"
              ELSE /\ last'.msg = "200"
                   /\ last'.result.user_id = last'.args[1]
                   /\ \E u \in users :
                         u.id = last'.args[1] /\ last'.result.username = u.username
                   /\ last'.result.total_posts = Cardinality(posts_of(last'.args[1]))
                   /\ last'.result.total_comments = Cardinality(comments_of(last'.args[1]))
                   /\ last'.result.followers_count =
                         Cardinality(followers_all(last'.args[1]))
                   /\ last'.result.following_count =
                         Cardinality(following_all(last'.args[1]))]_vars

(***************************************************************************)
(* The write endpoints (views.py): a request is validated by the           *)
(* serializer of the view (400 when invalid), handed to the service by     *)
(* perform_create, and answered by CreateModelMixin.create with            *)
(* serializer.data and 201.  perform_create turns the ValidationError of a *)
(* service into django.core.exceptions.ValidationError, which the REST     *)
(* framework does not translate: the request ends with 500.  No view       *)
(* calls serializer.save(), so serializer.data is the representation of    *)
(* the validated data, not of the stored row.                              *)
(***************************************************************************)
Response(op, args, status, data) ==
    [op |-> op, exc |-> "None", msg |-> "", before |-> <<>>, deleted |-> 0,
     args |-> args, result |-> data, status |-> status]

\* the ids a bearer token can stand for: the registered users
authenticated == { u.id : u \in users }

\* str.lower of validate_email
lower(email) == IF email = "Carol@X.com" THEN "carol@x.com" ELSE email

\* UserSerializer on a POST payload: both fields required and not blank, both
\* unique (UniqueValidator of the model fields), validate_username
UserSerializer_is_valid(username, email) ==
    /\ username # Blank /\ email # Blank
    /\ get_by_username(username) = {} /\ get_by_email(email) = {}
    /\ Len(username) >= 3 /\ Len(username) <= 30

\* POST users/: UserListCreateView.perform_create (views.py 56-68); the
\* validated data has no 'password', which is not a field of UserSerializer
users_post(username, email) ==
    LET msg == create_user_check(username, lower(email), Blank) IN
    /\ IF ~UserSerializer_is_valid(username, email)
          THEN /\ last' = Response("users_post", <<username, email>>, 400, <<>>)
               /\ UNCHANGED <<users, next_user_id>>
          ELSE IF msg # "ok"
          THEN /\ last' = Response("users_post", <<username, email>>, 500, <<>>)
               /\ UNCHANGED <<users, next_user_id>>
          ELSE /\ users' = users \cup
                      {user_row(next_user_id, username, lower(email), Blank)}
               /\ next_user_id' = next_user_id + 1
               /\ last' = Response("users_post", <<username, email>>, 201, <<>>)
    /\ UNCHANGED <<posts, comments, followers, next_post_id, next_comment_id,
                   reqs, supports_ignore_conflicts>>

\* validate_content of PostSerializer and CommentSerializer on the value the
\* CharField has trimmed
content_is_valid(content, max_length) ==
    strip(content) # <<>> /\ Len(strip(content)) <= max_length

\* POST posts/: PostSerializer (serializers.py 174-227) requires 'author', the
\* id of a user, and valid content; PostListCreateView.perform_create
\* (views.py 135-148) passes request.user.id and the content to create_post.
\* serializer.data then calls get_comments_count and get_recent_comments on
\* the validated data, a dict: AttributeError, answered with 500 after the
\* post is stored.
posts_post(actor, author, content) ==
    LET valid == /\ author # NULL /\ get_by_id(users, author) # {}
                 /\ content_is_valid(content, MaxPostContent)
        msg == create_post_check(actor, strip(content))
    IN  /\ valid /\ msg = "ok" => next_post_id <= MaxPosts
        /\ IF ~valid
              THEN /\ last' = Response("posts_post", <<actor, author, content>>, 400, <<>>)
                   /\ UNCHANGED <<posts, next_post_id>>
              ELSE IF msg # "ok"
              THEN /\ last' = Response("posts_post", <<actor, author, content>>, 500, <<>>)
                   /\ UNCHANGED <<posts, next_post_id>>
              ELSE /\ posts' = posts \cup
                          {[id |-> next_post_id, author_id |-> actor,
                            content |-> strip(content), created_at |-> next_post_id]}
                   /\ next_post_id' = next_post_id + 1
                   /\ last' = Response("posts_post", <<actor, author, content>>, 500, <<>>)
        /\ UNCHANGED <<users, comments, followers, next_user_id, next_comment_id,
                       reqs, supports_ignore_conflicts>>

\* the author and the post are taken from the payload
comment_fields_from_payload(actor, pk, author, post) ==
    [author_id |-> author, post_id |-> post]

\* CommentListCreateView.perform_create (views.py 202-221): the author is
\* request.user.id and the post is the pk of the URL; 'author' and 'post' of
\* the payload are read-only fields of CommentSerializer
comment_fields(actor, pk, author, post) ==
    [author_id |-> actor, post_id |-> pk]

\* GET posts/<pk>/comments/: the comments of the post, newest first
comments_list(pk) ==
    [i \in 1..Len(get_by_post(pk)) |->
        [id |-> get_by_post(pk)[i].id, author |-> get_by_post(pk)[i].author_id,
         post |-> get_by_post(pk)[i].post_id, content |-> get_by_post(pk)[i].content]]

comments_get(pk) ==
    /\ last' = Response("comments_get", <<pk>>, 200, comments_list(pk))
    /\ UNCHANGED <<store, next_user_id, next_post_id, next_comment_id, reqs,
                   supports_ignore_conflicts>>

\* POST posts/<pk>/comments/
comments_post(actor, pk, author, post, content) ==
    LET valid == content_is_valid(content, MaxCommentContent)
        fields == comment_fields(actor, pk, author, post)
        msg == create_comment_check(fields.author_id, fields.post_id, strip(content))
        args == <<actor, pk, author, post, content>>
    IN  /\ valid /\ msg = "ok" => next_comment_id <= MaxComments
        /\ IF ~valid
              THEN /\ last' = Response("comments_post", args, 400, <<>>)
                   /\ UNCHANGED <<comments, next_comment_id>>
              ELSE IF msg # "ok"
              THEN /\ last' = Response("comments_post", args, 500, <<>>)
                   /\ UNCHANGED <<comments, next_comment_id>>
              ELSE /\ comments' = comments \cup
                          {[id |-> next_comment_id, author_id |-> fields.author_id,
                            post_id |-> fields.post_id, content |-> strip(content),
                            created_at |-> next_comment_id]}
                   /\ next_comment_id' = next_comment_id + 1
                   /\ last' = Response("comments_post", args, 201,
                                       [content |-> strip(content)])
        /\ UNCHANGED <<users, posts, followers, next_user_id, next_post_id,
                       reqs, supports_ignore_conflicts>>

\* two registered users and nothing else
InitHttp ==
    /\ users = { user_row(1, "alice", "alice@x.com", "secret"),
                 user_row(2, "bob", "bob@x.com", "secret") }
    /\ posts = {}
    /\ comments = {}
    /\ followers = <<>>
    /\ next_user_id = 3
    /\ next_post_id = 1
    /\ next_comment_id = 1
    /\ last = Call("init", "None", "ok")
    /\ reqs = [r \in Requests |-> NoRequest]
    /\ supports_ignore_conflicts = TRUE

HttpUsernames == {"carol", "alice", "al"}
HttpEmails == {"carol@x.com", "Carol@X.com", "alice@x.com", Blank}
HttpContents == { <<" ">>, <<"h">>, <<" ", "h">> }
PostContents == HttpContents \cup {text(MaxPostContent + 1)}
CommentContents == HttpContents \cup {text(MaxCommentContent + 1)}

\* 'author' and 'post' of a comment payload: absent, or another user and
\* another post
CommentPayloads == { <<NULL, NULL>>, <<2, MaxPosts + 1>> }

UsersPost == \E username \in HttpUsernames, email \in HttpEmails : users_post(username, email)

PostsPost ==
    \E actor \in authenticated, author \in {NULL} \cup ReadUserIds,
       content \in PostContents :
        posts_post(actor, author, content)

CommentsPost ==
    \E actor \in authenticated, pk \in ReadPostIds, payload \in CommentPayloads,
       content \in CommentContents :
        comments_post(actor, pk, payload[1], payload[2], content)

CommentsGet == \E pk \in ReadPostIds : comments_get(pk)

NextHttp ==
    \/ UsersPost
    \/ PostsPost
    \/ CommentsPost
    \/ CommentsGet

SpecHttp == InitHttp /\ [][NextHttp]_vars

\* C17: POST users/ with an unused username and an unused email, and no
\* password, is answered 201 and a user with that username exists afterwards.
C17_UsersPostCreates ==
    [][(/\ last'.op = "users_post"
        /\ Len(last'.args[1]) >= 3 /\ last'.args[2] # Blank
        /\ get_by_username(last'.args[1]) = {}
        /\ get_by_email(last'.args[2]) = {} /\ get_by_email(lower(last'.args[2])) = {})
        => /\ last'.status = 201
           /\ \E u \in users' : u.username = last'.args[1]]_vars

\* C19: POST posts/ with non-blank content of at most 5000 characters and some
\* 'author' value in the payload is answered 201 and stores exactly one new
\* post, whose author is the authenticated actor.
C19_PostsPostCreates ==
    [][(/\ last'.op = "posts_post"
        /\ last'.args[2] # NULL
        /\ content_is_valid(last'.args[3], MaxPostContent))
        => /\ last'.status = 201
           /\ \E p \in posts' :
                 /\ p \notin posts /\ posts' = posts \cup {p}
                 /\ p.author_id = last'.args[1]]_vars

\* C20: POST posts/<pk>/comments/ for an existing post with valid content is
\* answered 201 and stores exactly one new comment, on the post of the URL
\* and by the authenticated actor whatever 'author' and 'post' the payload
\* carries; the list of that post's comments then has the comment.
C20_CommentsPostCreates ==
    [][(/\ last'.op = "comments_post"
        /\ get_by_id(posts, last'.args[2]) # {}
        /\ content_is_valid(last'.args[5], MaxCommentContent))
        => /\ last'.status = 201
           /\ \E c \in comments' :
                 /\ c \notin comments /\ comments' = comments \cup {c}
                 /\ c.author_id = last'.args[1]
                 /\ c.post_id = last'.args[2]
                 /\ \E pk \in ReadPostIds :
                       /\ pk = last'.args[2]
                       /\ \E i \in 1..Len(comments_list(pk)') :
                             /\ comments_list(pk)'[i].id = c.id
                             /\ comments_list(pk)'[i].author = last'.args[1]
           /\ users' = users /\ posts' = posts /\ followers' = followers]_vars

\* alice commented on bob's post with a payload naming bob and another post
C20_Witness ==
    /\ last.op = "comments_post" /\ last.status = 201
    /\ last.args[1] = 1 /\ last.args[3] = 2 /\ last.args[4] # last.args[2]
    /\ \E c \in comments, p \in posts :
          c.author_id = 1 /\ c.post_id = p.id /\ p.id = last.args[2] /\ p.author_id = 2

\* C21: a create request (POST users/, POST posts/, POST posts/<pk>/comments/)
\* whose payload passes the serializer and whose service call then fails a
\* domain rule is answered with 400 or 404, never with 500, and stores nothing.
C21_ServiceFailureIsClientError ==
    [][(\/ /\ last'.op = "users_post"
           /\ UserSerializer_is_valid(last'.args[1], last'.args[2])
           /\ create_user_check(last'.args[1], lower(last'.args[2]), Blank) # "ok"
        \/ /\ last'.op = "posts_post"
           /\ last'.args[2] # NULL /\ get_by_id(users, last'.args[2]) # {}
           /\ content_is_valid(last'.args[3], MaxPostContent)
           /\ create_post_check(last'.args[1], strip(last'.args[3])) # "ok"
        \/ /\ last'.op = "comments_post"
           /\ content_is_valid(last'.args[5], MaxCommentContent)
           /\ create_comment_check(last'.args[1], last'.args[2], strip(last'.args[5])) # "ok")
        => /\ last'.status \in {400, 404}
           /\ store' = store]_vars

(***************************************************************************)
(* Concurrent follow requests: FollowUserView.post (views.py 248-279)      *)
(* runs follow_user (services.py 110-128) with no transaction and no lock  *)
(* around it, so the statements of two requests interleave.  The add of    *)
(* the many-to-many manager is one INSERT that ignores conflicts where the *)
(* database supports that; elsewhere it is a query for the rows that are   *)
(* missing followed by a plain INSERT of those rows.                       *)
(***************************************************************************)
through_row(r) == Row(reqs[r].follow_id, reqs[r].id)

respond(r, status, lost) ==
    reqs' = [reqs EXCEPT ![r].pc = "done", ![r].status = status, ![r].lost = lost]

\* the request arrives with the two ids of its URL
post_begin(r, id, follow_id) ==
    /\ reqs[r].pc = "idle"
    /\ reqs' = [reqs EXCEPT ![r].pc = "check", ![r].id = id, ![r].follow_id = follow_id,
                            ![r].edge_at_start = is_following(id, follow_id)]
    /\ UNCHANGED <<store, next_user_id, next_post_id, next_comment_id, last,
                   supports_ignore_conflicts>>

\* services.py 110-120: the lookups and the three checks; a ValidationError is
\* answered with 400 (views.py 270-274)
post_check(r) ==
    /\ reqs[r].pc = "check"
    /\ IF follow_user_check(reqs[r].id, reqs[r].follow_id) = "ok"
          THEN reqs' = [reqs EXCEPT ![r].pc = "add"]
          ELSE respond(r, 400, FALSE)
    /\ UNCHANGED <<store, next_user_id, next_post_id, next_comment_id, last,
                   supports_ignore_conflicts>>

\* services.py 122: follower.following.add(user_to_follow)
post_add(r) ==
    /\ reqs[r].pc = "add"
    /\ IF supports_ignore_conflicts
          THEN /\ followers' = IF through_row(r) \in rows THEN followers
                               ELSE insert_row(through_row(r))
               /\ respond(r, 200, through_row(r) \in rows)
          ELSE /\ reqs' = [reqs EXCEPT ![r].pc = "insert",
                                       ![r].missing = through_row(r) \notin rows]
               /\ UNCHANGED followers
    /\ UNCHANGED <<users, posts, comments, next_user_id, next_post_id,
                   next_comment_id, last, supports_ignore_conflicts>>

\* the plain INSERT of the rows found missing: the unique constraint of the
\* through table raises IntegrityError, which views.py 275-279 answers with 500
post_insert(r) ==
    /\ reqs[r].pc = "insert"
    /\ IF ~reqs[r].missing
          THEN respond(r, 200, TRUE) /\ UNCHANGED followers
          ELSE IF through_row(r) \in rows
                  THEN respond(r, 500, TRUE) /\ UNCHANGED followers
                  ELSE followers' = insert_row(through_row(r)) /\ respond(r, 200, FALSE)
    /\ UNCHANGED <<users, posts, comments, next_user_id, next_post_id,
                   next_comment_id, last, supports_ignore_conflicts>>

\* two registered users and any follow relation between them
InitRace ==
    /\ users = { user_row(1, "alice", "alice@x.com", "secret"),
                 user_row(2, "bob", "bob@x.com", "secret") }
    /\ posts = {}
    /\ comments = {}
    /\ \E S \in SUBSET {Row(1, 2), Row(2, 1)} : followers = [x \in S |-> 1]
    /\ next_user_id = 3
    /\ next_post_id = 1
    /\ next_comment_id = 1
    /\ last = Call("init", "None", "ok")
    /\ reqs = [r \in Requests |-> NoRequest]
    /\ supports_ignore_conflicts \in BOOLEAN

PostBegin == \E r \in Requests, id \in UserIds, follow_id \in UserIds : post_begin(r, id, follow_id)

PostCheck == \E r \in Requests : post_check(r)

PostAdd == \E r \in Requests : post_add(r)

PostInsert == \E r \in Requests : post_insert(r)

NextRace ==
    \/ PostBegin
    \/ PostCheck
    \/ PostAdd
    \/ PostInsert

SpecRace == InitRace /\ [][NextRace]_vars

\* C4: of two follow requests for the same pair (A, B), both made while A does
\* not follow B, at most one is answered with success.
C4_AtMostOneFollowSucceeds ==
    \A r1 \in Requests, r2 \in Requests :
        (/\ r1 # r2
         /\ reqs[r1].pc = "done" /\ reqs[r2].pc = "done"
         /\ reqs[r1].id = reqs[r2].id /\ reqs[r1].follow_id = reqs[r2].follow_id
         /\ ~reqs[r1].edge_at_start /\ ~reqs[r2].edge_at_start)
        => ~(reqs[r1].status = 200 /\ reqs[r2].status = 200)

\* C5: a follow request that passed the checks and then found the row already
\* written by the other request is answered with 400, as the duplicate check
\* would have answered.
C5_LostRaceAnswered400 ==
    \A r \in Requests : (reqs[r].pc = "done" /\ reqs[r].lost) => reqs[r].status = 400

\* C18: a follow request for two distinct users, made while the one of id
\* does not follow the one of follow_id, is answered 200, and then the user
\* follow_id is in the followers of the user id.
C18_FollowIdAmongFollowersOfId ==
    \A r \in Requests :
        (/\ reqs[r].pc = "done"
         /\ reqs[r].id # reqs[r].follow_id
         /\ ~reqs[r].edge_at_start)
        => /\ reqs[r].status = 200
           /\ reqs[r].follow_id \in followers_all(reqs[r].id)

(***************************************************************************)
(* Concurrent create_user calls (services.py 46-66): the required-field    *)
(* check, the two lookups and the INSERT of objects.create are separate    *)
(* statements with no transaction or lock around them, so the statements   *)
(* of two calls interleave.  The columns username (AbstractUser) and email *)
(* (models.py 27-30) are unique=True: the INSERT of a row that repeats     *)
(* either raises IntegrityError and stores nothing.                        *)
(***************************************************************************)
NoCreate == [pc |-> "idle", username |-> Blank, email |-> Blank, password |-> Blank,
             exc |-> "None", added |-> FALSE]

finish(r, exc, added) ==
    reqs' = [reqs EXCEPT ![r].pc = "done", ![r].exc = exc, ![r].added = added]

\* the table accepts any row
unique_violation_never(username, email) == FALSE

\* the unique constraints of api_user on username and on email
unique_violation(username, email) ==
    get_by_username(username) # {} \/ get_by_email(email) # {}

\* services.py 46-52: the call arrives and the required fields are checked
create_begin(r, username, email, password) ==
    /\ reqs[r].pc = "idle"
    /\ IF username = Blank \/ email = Blank \/ password = Blank
          THEN reqs' = [reqs EXCEPT ![r].pc = "done", ![r].username = username,
                                    ![r].email = email, ![r].password = password,
                                    ![r].exc = "ValidationError"]
          ELSE reqs' = [reqs EXCEPT ![r].pc = "get_by_username", ![r].username = username,
                                    ![r].email = email, ![r].password = password]
    /\ UNCHANGED <<store, next_user_id, next_post_id, next_comment_id, last,
                   supports_ignore_conflicts>>

\* services.py 55-56
create_get_by_username(r) ==
    /\ reqs[r].pc = "get_by_username"
    /\ IF get_by_username(reqs[r].username) # {}
          THEN finish(r, "ValidationError", FALSE)
          ELSE reqs' = [reqs EXCEPT ![r].pc = "get_by_email"]
    /\ UNCHANGED <<store, next_user_id, next_post_id, next_comment_id, last,
                   supports_ignore_conflicts>>

\* services.py 58-59
create_get_by_email(r) ==
    /\ reqs[r].pc = "get_by_email"
    /\ IF get_by_email(reqs[r].email) # {}
          THEN finish(r, "ValidationError", FALSE)
          ELSE reqs' = [reqs EXCEPT ![r].pc = "create"]
    /\ UNCHANGED <<store, next_user_id, next_post_id, next_comment_id, last,
                   supports_ignore_conflicts>>

\* services.py 62-66: user_repository.create, one INSERT
create_insert(r) ==
    /\ reqs[r].pc = "create"
    /\ IF unique_violation(reqs[r].username, reqs[r].email)
          THEN /\ finish(r, "IntegrityError", FALSE)
               /\ UNCHANGED <<users, next_user_id>>
          ELSE /\ next_user_id <= MaxUsers
               /\ users' = users \cup {user_row(next_user_id, reqs[r].username,
                                                reqs[r].email, reqs[r].password)}
               /\ next_user_id' = next_user_id + 1
               /\ finish(r, "None", TRUE)
    /\ UNCHANGED <<posts, comments, followers, next_post_id, next_comment_id, last,
                   supports_ignore_conflicts>>

\* no user yet, two calls about to arrive
InitCreateRace ==
    /\ users = {}
    /\ posts = {}
    /\ comments = {}
    /\ followers = <<>>
    /\ next_user_id = 1
    /\ next_post_id = 1
    /\ next_comment_id = 1
    /\ last = Call("init", "None", "ok")
    /\ reqs = [r \in Requests |-> NoCreate]
    /\ supports_ignore_conflicts = TRUE

CreateBegin == \E r \in Requests, d \in UserData : create_begin(r, d[1], d[2], d[3])

CreateGetByUsername == \E r \in Requests : create_get_by_username(r)

CreateGetByEmail == \E r \in Requests : create_get_by_email(r)

CreateInsert == \E r \in Requests : create_insert(r)

NextCreateRace ==
    \/ CreateBegin
    \/ CreateGetByUsername
    \/ CreateGetByEmail
    \/ CreateInsert

SpecCreateRace == InitCreateRace /\ [][NextCreateRace]_vars

\* C24: whatever the interleaving of two create_user calls, no two stored
\* users share a username and no two share an email, and of two calls with
\* the same username or the same email at most one adds a user.
C24_UniqueUsernameAndEmail ==
    /\ \A u \in users, v \in users :
          u # v => u.username # v.username /\ u.email # v.email
    /\ \A r1 \in Requests, r2 \in Requests :
          (/\ r1 # r2
           /\ (reqs[r1].username = reqs[r2].username \/ reqs[r1].email = reqs[r2].email))
          => ~(reqs[r1].added /\ reqs[r2].added)

\* both calls passed the lookups before either inserted: one stored the
\* user, the other met the constraint on the email alone
C24_Witness ==
    \E r1 \in Requests, r2 \in Requests :
        /\ reqs[r1].pc = "done" /\ reqs[r1].added
        /\ reqs[r2].pc = "done" /\ reqs[r2].exc = "IntegrityError"
        /\ reqs[r1].username # reqs[r2].username
        /\ reqs[r1].email = reqs[r2].email
        /\ Cardinality(users) = 1

(***************************************************************************)
(* Creating calls against concurrent deletes.  create_post, create_comment *)
(* and follow_user (services.py 110-122, 189-199, 284-299) look their      *)
(* users and post up and then INSERT, with no transaction around the two;  *)
(* instance.delete() (repositories.py 160-175) first collects the rows     *)
(* that reference the instance and then deletes them and the instance in   *)
(* one transaction.  ForeignKey fields (models.py 108-114, 175-188) and    *)
(* the through table carry foreign key constraints in the database: a      *)
(* statement or transaction that would leave a reference to a missing row  *)
(* raises IntegrityError and changes nothing.                              *)
(***************************************************************************)
NoCall == [pc |-> "idle", op |-> "", x |-> 0, y |-> 0,
           collected |-> <<{}, {}, {}>>, exc |-> "None"]

ids(objects) == { o.id : o \in objects }

\* the database checks no reference
foreign_keys_unchecked(U, P, C, R) == TRUE

\* the foreign key constraints of api_post, api_comment and the through
\* table on tables with these rows
foreign_keys_hold(U, P, C, R) ==
    /\ \A p \in P : p.author_id \in ids(U)
    /\ \A c \in C : c.author_id \in ids(U) /\ c.post_id \in ids(P)
    /\ \A r \in R : r.from_user_id \in ids(U) /\ r.to_user_id \in ids(U)

raise(r, exc) == reqs' = [reqs EXCEPT ![r].pc = "done", ![r].exc = exc]

CreatingOps == {"create_post", "create_comment", "follow_user"}

DeletingOps == {"delete_user", "delete_post"}

\* a call arrives: x is the author, the follower or the id to delete, y the
\* post to comment on or the user to follow
call_begin(r, op, x, y) ==
    /\ reqs[r].pc = "idle"
    /\ reqs' = [reqs EXCEPT ![r].pc = IF op \in CreatingOps THEN "get_user" ELSE "collect",
                            ![r].op = op, ![r].x = x, ![r].y = y]
    /\ UNCHANGED <<store, next_user_id, next_post_id, next_comment_id, last,
                   supports_ignore_conflicts>>

\* user_repository.get_by_id of the author (services.py 189-191, 284-286) or
\* of the follower (services.py 110)
call_get_user(r) ==
    /\ reqs[r].pc = "get_user"
    /\ IF get_by_id(users, reqs[r].x) = {} /\ reqs[r].op # "follow_user"
          THEN raise(r, "ValidationError")
          ELSE reqs' = [reqs EXCEPT ![r].pc = IF reqs[r].op = "create_post"
                                                 THEN "insert" ELSE "get_other",
                                    ![r].collected = <<get_by_id(users, reqs[r].x), {}, {}>>]
    /\ UNCHANGED <<store, next_user_id, next_post_id, next_comment_id, last,
                   supports_ignore_conflicts>>

\* post_repository.get_by_id of the post (services.py 288-290), or the lookup
\* of the user to follow and the checks of follow_user (services.py 111-120)
call_get_other(r) ==
    /\ reqs[r].pc = "get_other"
    /\ IF reqs[r].op = "create_comment"
          THEN IF get_by_id(posts, reqs[r].y) = {}
                  THEN raise(r, "ValidationError")
                  ELSE reqs' = [reqs EXCEPT ![r].pc = "insert"]
          ELSE IF \/ reqs[r].collected[1] = {}
                  \/ get_by_id(users, reqs[r].y) = {}
                  \/ reqs[r].x = reqs[r].y
                  \/ reqs[r].y \in following_all(reqs[r].x)
                  THEN raise(r, "ValidationError")
                  ELSE reqs' = [reqs EXCEPT ![r].pc = "insert"]
    /\ UNCHANGED <<store, next_user_id, next_post_id, next_comment_id, last,
                   supports_ignore_conflicts>>

\* the INSERT of the new row, with the ids of the objects looked up before
call_insert(r) ==
    LET post == [id |-> next_post_id, author_id |-> reqs[r].x, content |-> <<"h">>,
                 created_at |-> next_post_id]
        comment == [id |-> next_comment_id, author_id |-> reqs[r].x,
                    post_id |-> reqs[r].y, content |-> <<"h">>,
                    created_at |-> next_comment_id]
        P == IF reqs[r].op = "create_post" THEN posts \cup {post} ELSE posts
        C == IF reqs[r].op = "create_comment" THEN comments \cup {comment} ELSE comments
        F == IF reqs[r].op = "follow_user"
                THEN following_add(reqs[r].x, reqs[r].y) ELSE followers
    IN  /\ reqs[r].pc = "insert"
        /\ IF foreign_keys_hold(users, P, C, DOMAIN F)
              THEN /\ posts' = P /\ comments' = C /\ followers' = F
                   /\ next_post_id' = IF P = posts THEN next_post_id ELSE next_post_id + 1
                   /\ next_comment_id' = IF C = comments THEN next_comment_id
                                         ELSE next_comment_id + 1
                   /\ raise(r, "None")
              ELSE /\ UNCHANGED <<posts, comments, followers, next_post_id, next_comment_id>>
                   /\ raise(r, "IntegrityError")
        /\ UNCHANGED <<users, next_user_id, last, supports_ignore_conflicts>>

\* objects.get(pk=id) and the collection of the rows that go with the instance
call_collect(r) ==
    /\ reqs[r].pc = "collect"
    /\ IF reqs[r].op = "delete_user"
          THEN IF get_by_id(users, reqs[r].x) = {}
                  THEN raise(r, "None")
                  ELSE reqs' = [reqs EXCEPT ![r].pc = "delete",
                                   ![r].collected = <<cascade_posts(reqs[r].x),
                                                      cascade_comments(reqs[r].x),
                                                      cascade_rows(reqs[r].x)>>]
          ELSE IF get_by_id(posts, reqs[r].x) = {}
                  THEN raise(r, "None")
                  ELSE reqs' = [reqs EXCEPT ![r].pc = "delete",
                                   ![r].collected = <<get_by_id(posts, reqs[r].x),
                                                      post_comments(reqs[r].x), {}>>]
    /\ UNCHANGED <<store, next_user_id, next_post_id, next_comment_id, last,
                   supports_ignore_conflicts>>

\* the DELETEs of the collected rows and of the instance, in one transaction
call_delete(r) ==
    LET U == IF reqs[r].op = "delete_user" THEN users \ get_by_id(users, reqs[r].x)
             ELSE users
        P == posts \ reqs[r].collected[1]
        C == comments \ reqs[r].collected[2]
        R == rows \ reqs[r].collected[3]
    IN  /\ reqs[r].pc = "delete"
        /\ IF foreign_keys_hold(U, P, C, R)
              THEN /\ users' = U /\ posts' = P /\ comments' = C
                   /\ followers' = [x \in R |-> followers[x]]
                   /\ raise(r, "None")
              ELSE /\ UNCHANGED store
                   /\ raise(r, "IntegrityError")
        /\ UNCHANGED <<next_user_id, next_post_id, next_comment_id, last,
                       supports_ignore_conflicts>>

\* two registered users, a post of alice's, and any follow relation
InitIntegrity ==
    /\ users = { user_row(1, "alice", "alice@x.com", "secret"),
                 user_row(2, "bob", "bob@x.com", "secret") }
    /\ posts = { [id |-> 1, author_id |-> 1, content |-> <<"h">>, created_at |-> 1] }
    /\ comments = {}
    /\ \E S \in SUBSET {Row(1, 2), Row(2, 1)} : followers = [x \in S |-> 1]
    /\ next_user_id = 3
    /\ next_post_id = 2
    /\ next_comment_id = 1
    /\ last = Call("init", "None", "ok")
    /\ reqs = [r \in Requests |-> NoCall]
    /\ supports_ignore_conflicts = TRUE

CallBegin ==
    \E r \in Requests, op \in CreatingOps \cup DeletingOps, x \in UserIds, y \in UserIds :
        call_begin(r, op, x, y)

CallGetUser == \E r \in Requests : call_get_user(r)

CallGetOther == \E r \in Requests : call_get_other(r)

CallInsert == \E r \in Requests : call_insert(r)

CallCollect == \E r \in Requests : call_collect(r)

CallDelete == \E r \in Requests : call_delete(r)

NextIntegrity ==
    \/ CallBegin
    \/ CallGetUser
    \/ CallGetOther
    \/ CallInsert
    \/ CallCollect
    \/ CallDelete

SpecIntegrity == InitIntegrity /\ [][NextIntegrity]_vars

\* C25: in every state, under every interleaving of creating calls and
\* cascading deletes, each comment's post and author exist, each post's
\* author exists, and both ends of each follow row exist.
C25_ReferentialIntegrity ==
    /\ \A c \in comments :
          get_by_id(posts, c.post_id) # {} /\ get_by_id(users, c.author_id) # {}
    /\ \A p \in posts : get_by_id(users, p.author_id) # {}
    /\ \A f \in rows :
          get_by_id(users, f.from_user_id) # {} /\ get_by_id(users, f.to_user_id) # {}

\* create_comment passed both lookups, the post was deleted with its
\* comments, and the INSERT was refused: no comment is stored
C25_Witness ==
    \E r1 \in Requests, r2 \in Requests :
        /\ reqs[r1].pc = "done" /\ reqs[r1].op = "create_comment"
        /\ reqs[r1].exc = "IntegrityError"
        /\ reqs[r2].pc = "done" /\ reqs[r2].op = "delete_post"
        /\ reqs[r2].x = reqs[r1].y /\ reqs[r2].exc = "None"
        /\ posts = {} /\ comments = {}
        /\ get_by_id(users, reqs[r1].x) # {}

(***************************************************************************)
(* The data-access calls on Post beside the service.  PostRepository       *)
(* inherits create and update of DjangoRepository (repositories.py         *)
(* 129-159): objects.create, and setattr followed by save().     *)
(* Neither runs the validators of the model fields, which only full_clean  *)
(* runs, and Post, unlike Comment, overrides neither clean nor save        *)
(* (models.py 96-159).                                                     *)
(***************************************************************************)
\* post_repository.create(author=, content=): Post.objects.create
post_repository_create(author_id, content) ==
    /\ next_post_id <= MaxPosts
    /\ IF get_by_id(users, author_id) = {}
          THEN /\ UNCHANGED <<posts, next_post_id>>
               /\ last' = Call("post_repository_create", "IntegrityError", "")
          ELSE /\ posts' = posts \cup {[id |-> next_post_id, author_id |-> author_id,
                                        content |-> content, created_at |-> next_post_id]}
               /\ next_post_id' = next_post_id + 1
               /\ last' = Call("post_repository_create", "None", "ok")
    /\ UNCHANGED <<users, comments, followers, next_user_id, next_comment_id,
                   reqs, supports_ignore_conflicts>>

\* post_repository.update(id, content=): get(pk=id), setattr, save()
post_repository_update(id, content) ==
    /\ IF get_by_id(posts, id) = {}
          THEN /\ UNCHANGED posts
               /\ last' = Call("post_repository_update", "None", "None")
          ELSE /\ posts' = { IF p.id = id THEN [p EXCEPT !.content = content] ELSE p :
                                p \in posts }
               /\ last' = Call("post_repository_update", "None", "ok")
    /\ UNCHANGED <<users, comments, followers, next_user_id, next_post_id,
                   next_comment_id, reqs, supports_ignore_conflicts>>

\* two registered users and no post
InitPostData ==
    /\ users = { user_row(1, "alice", "alice@x.com", "secret"),
                 user_row(2, "bob", "bob@x.com", "secret") }
    /\ posts = {}
    /\ comments = {}
    /\ followers = <<>>
    /\ next_user_id = 3
    /\ next_post_id = 1
    /\ next_comment_id = 1
    /\ last = Call("init", "None", "ok")
    /\ reqs = [r \in Requests |-> NoRequest]
    /\ supports_ignore_conflicts = TRUE

PostRepositoryCreate ==
    \E a \in ReadUserIds, content \in Contents : post_repository_create(a, content)

PostRepositoryUpdate ==
    \E id \in ReadPostIds, content \in Contents : post_repository_update(id, content)

NextPostData ==
    \/ CreatePost
    \/ PostRepositoryCreate
    \/ PostRepositoryUpdate
    \/ DeletePost
    \/ CreateComment
    \/ DeleteComment
    \/ DeleteUser

SpecPostData == InitPostData /\ [][NextPostData]_vars

\* C26: after any sequence of create_post calls and repository create and
\* update calls on Post, every stored post has content that is non-empty
\* once trimmed; create_post with empty or whitespace-only content raises
\* ValidationError and stores nothing.
C26_PostContentNeverBlank ==
    [][/\ \A p \in posts' : strip(p.content) # <<>>
       /\ \A a \in UserIds, content \in Contents :
             (/\ last'.op = "create_post"
              /\ create_post(a, content)
              /\ exists(a) /\ strip(content) = <<>>)
             => last'.exc = "ValidationError" /\ store' = store]_vars

(***************************************************************************)
(* create_user with emails that differ in letter case only.  The service   *)
(* passes the email as given to get_by_email, objects.get(email=email)     *)
(* (repositories.py 206-219), and to create (services.py 58-66); the       *)
(* lowering of validate_email (serializers.py 155) belongs to the          *)
(* serializer of the HTTP endpoint and is not part of the service.         *)
(***************************************************************************)
CaseEmails == {"carol@x.com", "Carol@X.com", "alice@x.com", "bob@x.com"}

CreateUserAnyCase ==
    \E username \in Usernames, email \in CaseEmails : create_user(username, email, "secret")

NextEmail ==
    \/ CreateUserAnyCase
    \/ DeleteUser

SpecEmail == Init /\ [][NextEmail]_vars

\* C27: after any sequence of create_user calls every stored email is in
\* lowercase, and no two stored users have emails that are equal once
\* lowered.
C27_EmailsLowercase ==
    /\ \A u \in users : u.email = lower(u.email)
    /\ \A u \in users, v \in users : u # v => lower(u.email) # lower(v.email)

(***************************************************************************)
(* The follow endpoint, one request at a time: FollowUserView (views.py    *)
(* 237-312) on users/<id>/follow/<follow_id>/ (urls.py 28).                *)
(* IsAuthenticated refuses a request that carries no valid token with 401; *)
(* post and delete hand the two ids of the URL to follow_user and          *)
(* unfollow_user and do not read request.user.                             *)
(***************************************************************************)
\* POST users/<id>/follow/<follow_id>/
follow_post(actor, id, follow_id) ==
    LET msg == follow_user_check(id, follow_id)
        args == <<actor, id, follow_id>>
    IN  /\ IF actor = NULL
              THEN /\ last' = Response("follow_post", args, 401, <<>>)
                   /\ UNCHANGED followers
              ELSE IF msg # "ok"
              THEN /\ last' = Response("follow_post", args, 400, <<>>)
                   /\ UNCHANGED followers
              ELSE /\ followers' = following_add(id, follow_id)
                   /\ last' = Response("follow_post", args, 200, <<>>)
        /\ UNCHANGED <<users, posts, comments, next_user_id, next_post_id,
                       next_comment_id, reqs, supports_ignore_conflicts>>

\* DELETE users/<id>/follow/<follow_id>/
follow_delete(actor, id, follow_id) ==
    LET msg == unfollow_user_check(id, follow_id)
        args == <<actor, id, follow_id>>
    IN  /\ IF actor = NULL
              THEN /\ last' = Response("follow_delete", args, 401, <<>>)
                   /\ UNCHANGED followers
              ELSE IF msg # "ok"
              THEN /\ last' = Response("follow_delete", args, 400, <<>>)
                   /\ UNCHANGED followers
              ELSE /\ followers' = following_remove(id, follow_id)
                   /\ last' = Response("follow_delete", args, 200, <<>>)
        /\ UNCHANGED <<users, posts, comments, next_user_id, next_post_id,
                       next_comment_id, reqs, supports_ignore_conflicts>>

FollowPost ==
    \E actor \in {NULL} \cup authenticated, id \in ReadUserIds, follow_id \in ReadUserIds :
        follow_post(actor, id, follow_id)

FollowDelete ==
    \E actor \in {NULL} \cup authenticated, id \in ReadUserIds, follow_id \in ReadUserIds :
        follow_delete(actor, id, follow_id)

NextFollowHttp ==
    \/ FollowPost
    \/ FollowDelete

SpecFollowHttp == InitRace /\ [][NextFollowHttp]_vars

\* C28: a follow or unfollow request authenticated as user X adds or removes
\* only through rows of X as the follower (to_user = X), and a request
\* without an authenticated actor changes no row.
C28_OnlyActorsEdgesChange ==
    [][last'.op \in {"follow_post", "follow_delete"}
        => /\ \A f \in (rows \ rows') \cup (rows' \ rows) : f.to_user_id = last'.args[1]
           /\ last'.args[1] = NULL => followers' = followers]_vars

====
